---- MODULE Spec2Model ----
(***************************************************************************)
(* Circuit-transformation decision engine (TransformationCircuitEnv):      *)
(* layered circuits, the action codec, the validity mask and the           *)
(* reset/step episode machine, together with the circuit_to_obs encoder.   *)
(***************************************************************************)
EXTENDS Integers, Sequences, FiniteSets, TLC

VARIABLES
    current_circuit,   \* self.current_circuit
    current_dag,       \* self.current_dag
    next_circuit,      \* self.next_circuit
    target_circuit,    \* self.target_circuit
    training,          \* self.training
    valid_actions,     \* self.valid_actions (the array action_masks() returns)
    time_step,         \* self.time_step
    max_time_steps,    \* self.max_time_steps
    supplied_target,   \* the target_circuit argument the environment was built with
    accepted_steps,    \* calls of step() with a legal action since the last reset()
    stp,               \* the step() call in progress, statement by statement
    rst,               \* the reset() call in progress, statement by statement
    ctor,              \* the constructor call in progress
    envs,              \* two environments built from one configuration
    template_params,   \* the parameters of the gates of the shared gate classes
    twin_call,         \* the last call made on one of the two environments
    gen,               \* the _generate_random_circuit() call in progress
    tw,                \* a routing TrainingWrapper
    ew,                \* a routing EvaluationWrapper
    ev,                \* the EvaluationOrchestrator that drives ew
    trainer,           \* a TrainingOrchestrator
    dq,                \* a run of vqc_double_q_learning
    last_call,         \* the last call made on the environment and what it returned
    after_reset,       \* TRUE from the return of reset() to the next call of step()
    done,              \* TRUE from a step() that returned terminated=true to the next reset()
    cto                \* the activation of circuit_to_obs(qc): position, argument, array, result

env_vars == <<current_circuit, current_dag, next_circuit, target_circuit,
              training, valid_actions, time_step>>

\* what no call on a constructed environment assigns, and the history kept
\* beside the environment
fixed_vars == <<max_time_steps, supplied_target>>

vars == <<current_circuit, current_dag, next_circuit, target_circuit, training,
          valid_actions, time_step, max_time_steps, supplied_target,
          accepted_steps, last_call, after_reset, done, cto, stp, rst, ctor,
          envs, template_params, twin_call, gen, tw, ew, ev,
          trainer, dq>>

twin_vars == <<envs, template_params, twin_call>>

\* the wrappers and orchestrators of the routing pipeline
routing_vars == <<tw, ew, ev, trainer>>

\* the calls followed statement by statement in their own specifications, and
\* what each of them leaves alone
call_vars == <<stp, rst, ctor, twin_vars, gen, routing_vars, dq>>
beside_stp == <<rst, ctor, twin_vars, gen, routing_vars, dq>>
beside_rst == <<stp, ctor, twin_vars, gen, routing_vars, dq>>
beside_ctor == <<stp, rst, twin_vars, gen, routing_vars, dq>>
beside_twin == <<stp, rst, ctor, gen, routing_vars, dq>>
beside_gen == <<stp, rst, ctor, twin_vars, routing_vars, dq>>

\* the transformation environment as the routing pipeline leaves it
transformation_vars ==
    <<env_vars, fixed_vars, accepted_steps, last_call, after_reset, done, cto,
      stp, rst, ctor, twin_vars, gen, dq>>

\* an object that takes no part in a specification
Absent == [pc |-> "absent"]

RoutingAside ==
    /\ tw = Absent
    /\ ew = Absent
    /\ ev = Absent
    /\ trainer = Absent
    /\ dq = Absent

----------------------------------------------------------------------------
(* Configuration of the environment and bounds of the model.               *)

max_depth == 2
num_qubits == 2
\* the max_time_steps argument of the environments of Spec
ConfiguredTimeSteps == 2

\* circuits of the model hold at most MaxGates gate applications
MaxGates == 3
\* step() is not called again once time_step has reached TimeStepCap
TimeStepCap == 4

\* the native gate classes: a gate name and the offset of the second qubit
\* (0: single-qubit class)
gate_classes ==
    << [name |-> "rz", offset |-> 0],
       [name |-> "cx", offset |-> 1],
       [name |-> "cx", offset |-> -1] >>

transformation_rules == << "MergeRz", "InvertCnot" >>

num_rules == Len(transformation_rules)

\* spaces.Discrete(...) of the constructor
action_space_n_norules == max_depth * num_qubits
action_space_n == max_depth * num_qubits * Len(transformation_rules)

observation_space_shape == << max_depth, num_qubits, Len(gate_classes) >>

----------------------------------------------------------------------------
(* Circuits and their layering.                                            *)

Max(S) == CHOOSE x \in S : \A y \in S : y <= x

QuantumCircuit(n) == [n |-> n, data |-> << >>]

copy(qc) == [n |-> qc.n, data |-> qc.data]

SharesQubit(g, h) ==
    \E i \in DOMAIN g.qargs, j \in DOMAIN h.qargs : g.qargs[i] = h.qargs[j]

RECURSIVE LayerOf(_, _)
LayerOf(data, i) ==
    LET P == {j \in 1..(i - 1) : SharesQubit(data[j], data[i])}
    IN  IF P = {} THEN 0 ELSE 1 + Max({LayerOf(data, j) : j \in P})

depth(qc) ==
    IF qc.data = << >> THEN 0
    ELSE 1 + Max({LayerOf(qc.data, i) : i \in DOMAIN qc.data})

circuit_to_dag(qc) ==
    [n |-> qc.n,
     nodes |-> [i \in DOMAIN qc.data |->
                   [op |-> qc.data[i], layer |-> LayerOf(qc.data, i)]]]

\* the gate applications on n qubits: rz on a qubit, cx on neighbouring qubits,
\* and (for circuits handed in from outside) gates named in extra on qubit 0
GatesOn(n, extra) ==
    {[name |-> "rz", qargs |-> <<q>>] : q \in 0..(n - 1)}
    \cup {[name |-> "cx", qargs |-> <<q, q + 1>>] : q \in 0..(n - 2)}
    \cup {[name |-> "cx", qargs |-> <<q + 1, q>>] : q \in 0..(n - 2)}
    \cup {[name |-> x, qargs |-> <<0>>] : x \in extra}

CircuitsOn(n, extra, maxd) ==
    {qc \in {[n |-> n, data |-> d] :
                d \in UNION {[1..k -> GatesOn(n, extra)] : k \in 0..MaxGates}} :
        depth(qc) <= maxd}

----------------------------------------------------------------------------
(* Gate classification.                                                    *)

GateClassQubits(gc, q) ==
    IF gc.offset = 0 THEN <<q>>
    ELSE IF q + gc.offset \in 0..(num_qubits - 1) THEN <<q, q + gc.offset>>
    ELSE <<q, -1>>

equals_gate(gc, qubit, op, qubits) ==
    /\ op.name = gc.name
    /\ qubits = (IF gc.offset = 0 THEN <<qubit>> ELSE <<qubit, qubit + gc.offset>>)

\* position (from 0) of the first element of xs the key accepts, the key given
\* as its value on each element; -1 stands for the ValueError of a failed lookup
index_with_key(xs, key) ==
    LET hits == {i \in DOMAIN xs : key[i]}
    IN  IF hits = {} THEN -1 ELSE (CHOOSE i \in hits : \A j \in hits : i <= j) - 1

indices_from_op_node(qc, op_node) ==
    LET qubits == op_node.op.qargs
        qubit == qubits[1]
        key == [i \in DOMAIN gate_classes |->
                   equals_gate(gate_classes[i], qubit, op_node.op, qubits)]
        gate_idx == index_with_key(gate_classes, key)
    IN  IF gate_idx = -1
        THEN [error |-> "ValueError", qubit |-> qubit, gate_idx |-> -1]
        ELSE [error |-> "none", qubit |-> qubit, gate_idx |-> gate_idx]

----------------------------------------------------------------------------
(* Transformation rules.                                                   *)

\* MergeRz: an rz at (layer, qubit) directly followed by an rz on the same qubit
MergePairs(dag, layer, qubit) ==
    {p \in (DOMAIN dag.nodes) \X (DOMAIN dag.nodes) :
        /\ p[1] < p[2]
        /\ dag.nodes[p[1]].op = [name |-> "rz", qargs |-> <<qubit>>]
        /\ dag.nodes[p[2]].op = [name |-> "rz", qargs |-> <<qubit>>]
        /\ dag.nodes[p[1]].layer = layer
        /\ dag.nodes[p[2]].layer = layer + 1}

\* InvertCnot: a cx at layer whose first qubit is qubit
CnotNodes(dag, layer, qubit) ==
    {i \in DOMAIN dag.nodes :
        /\ dag.nodes[i].op.name = "cx"
        /\ dag.nodes[i].op.qargs[1] = qubit
        /\ dag.nodes[i].layer = layer}

is_valid(rule, dag, layer, qubit) ==
    IF transformation_rules[rule + 1] = "MergeRz"
    THEN MergePairs(dag, layer, qubit) # {}
    ELSE CnotNodes(dag, layer, qubit) # {}

RemoveAt(s, j) == SubSeq(s, 1, j - 1) \o SubSeq(s, j + 1, Len(s))

apply(rule, qc, dag, layer, qubit) ==
    IF transformation_rules[rule + 1] = "MergeRz"
    THEN IF MergePairs(dag, layer, qubit) = {} THEN copy(qc)
         ELSE LET p == CHOOSE p \in MergePairs(dag, layer, qubit) : TRUE
              IN  [n |-> qc.n, data |-> RemoveAt(qc.data, p[2])]
    ELSE IF CnotNodes(dag, layer, qubit) = {} THEN copy(qc)
         ELSE LET i == CHOOSE i \in CnotNodes(dag, layer, qubit) : TRUE
                  g == qc.data[i]
              IN  [n |-> qc.n,
                   data |-> [qc.data EXCEPT
                       ![i] = [name |-> "cx", qargs |-> <<g.qargs[2], g.qargs[1]>>]]]

----------------------------------------------------------------------------
(* Action codec and validity mask.                                         *)

\* np.unravel_index(action, shape): in the default C order the coordinates
\* are peeled off the flat index from the last dimension to the first
unravel_index_fortran(a, shape) ==
    LET c1 == a % shape[1]
        r1 == a \div shape[1]
        c2 == r1 % shape[2]
        r2 == r1 \div shape[2]
    IN  [layer |-> c1, qubit |-> c2, rule |-> r2]
unravel_index(a, shape) ==
    LET c3 == a % shape[3]
        r3 == a \div shape[3]
        c2 == r3 % shape[2]
        r2 == r3 \div shape[2]
    IN  [layer |-> r2, qubit |-> c2, rule |-> c3]

decode_action_colmajor(a) ==
    [layer |-> a % max_depth,
     qubit |-> (a \div max_depth) % num_qubits,
     rule  |-> a \div (max_depth * num_qubits)]
decode_action(a) ==
    unravel_index(a, <<max_depth, num_qubits, Len(transformation_rules)>>)

\* the row-major index of (layer, qubit, rule)
encode_action(d) ==
    (d.layer * num_qubits + d.qubit) * Len(transformation_rules) + d.rule

\* the array _set_valid_actions() stores, for an environment whose
\* current_dag is dag
ValidActionsOf(dag) ==
    [a \in 0..(action_space_n - 1) |->
        LET d == decode_action(a)
        IN  IF is_valid(d.rule, dag, d.layer, d.qubit) THEN 1 ELSE 0]

any(mask) == \E a \in DOMAIN mask : mask[a] # 0

----------------------------------------------------------------------------
(* The episode machine: construction, reset() and step().                  *)

NoAction == [layer |-> -1, qubit |-> -1, rule |-> -1]

\* first: the call is the first step() after a reset()
Returned(op, a, d, res, term, first) ==
    [op |-> op, action |-> a, decoded |-> d, result |-> res,
     terminated |-> term, first |-> first]

\* arg and env: the circuit argument and the environment as they were when
\* the call was made
CtoIdle ==
    [pc |-> "idle", qc |-> QuantumCircuit(0), obs |-> << >>, todo |-> << >>,
     classified |-> 0, written |-> 0, result |-> "none",
     arg |-> QuantumCircuit(0), env |-> << >>]

\* the circuits _generate_random_circuit() can return: gates of the native
\* classes on num_qubits qubits, appended until the depth budget is reached and
\* then transpiled to the basis gates
GeneratedCircuits == CircuitsOn(num_qubits, {}, max_depth)

\* the circuits a caller supplies as target_circuit
TargetCircuits == CircuitsOn(num_qubits, {}, max_depth)

StpIdle ==
    [pc |-> "idle", action |-> -1, decoded |-> NoAction, before |-> << >>,
     rewarded |-> FALSE, committed |-> FALSE, seen |-> << >>, reward |-> 0]

\* the constructor, for the arguments training, target_circuit and
\* max_time_steps
RstIdle == [pc |-> "idle", target_at_call |-> << >>, discarded |-> FALSE]

\* the constructor has returned an environment of the configured dimensions
CtorReturned ==
    [pc |-> "returned", max_depth |-> max_depth, num_qubits |-> num_qubits,
     num_rules |-> num_rules, n |-> action_space_n, result |-> "ok",
     used |-> FALSE]

Construct(tr, target, mts) ==
    /\ gen = Absent
    /\ RoutingAside
    /\ stp = StpIdle
    /\ rst = RstIdle
    /\ ctor = CtorReturned
    /\ envs = << >>
    /\ template_params = << >>
    /\ twin_call = << >>
    /\ training = tr
    /\ target_circuit = target
    /\ supplied_target = target
    /\ max_time_steps = mts
    /\ accepted_steps = 0
    /\ current_circuit = QuantumCircuit(num_qubits)
    /\ current_dag = circuit_to_dag(QuantumCircuit(num_qubits))
    /\ next_circuit = QuantumCircuit(num_qubits)
    /\ time_step = 0
    /\ valid_actions = ValidActionsOf(circuit_to_dag(QuantumCircuit(num_qubits)))
    /\ last_call = Returned("init", -1, NoAction, "ok", FALSE, FALSE)
    /\ after_reset = FALSE
    /\ done = FALSE
    /\ cto = CtoIdle

Init ==
    \E tr \in BOOLEAN :
        \E target \in (IF tr THEN {QuantumCircuit(num_qubits)} ELSE TargetCircuits) :
            Construct(tr, target, ConfiguredTimeSteps)

\* step(): the test of the selected action against the mask
Rejects_never(a) == FALSE
Rejects(a) == valid_actions[a] = 0

build_next_circuit(d) ==
    apply(d.rule, current_circuit, current_dag, d.layer, d.qubit)

\* step(): the mask stored after the commit
StepMask_stale(dag) == valid_actions
StepMask(dag) == ValidActionsOf(dag)

\* step(): the terminated flag, from the incremented time_step and the new mask
Terminated_atleast(ts, mask) == ts >= max_time_steps \/ ~any(mask)
Terminated(ts, mask) == ts = max_time_steps \/ ~any(mask)

step(a) ==
    LET decoded == decode_action(a)
    IN  IF Rejects(a)
        THEN /\ last_call' = Returned("step", a, decoded, "ValueError", FALSE, after_reset)
             /\ after_reset' = FALSE
             /\ accepted_steps' = accepted_steps + valid_actions[a]
             /\ UNCHANGED <<env_vars, fixed_vars, call_vars, done, cto>>
        ELSE /\ time_step < TimeStepCap
             /\ LET nc == build_next_circuit(decoded)
                    dag == circuit_to_dag(nc)
                    mask == StepMask(dag)
                    ts == time_step + 1
                    terminated == Terminated(ts, mask)
                IN  /\ next_circuit' = nc
                    /\ current_circuit' = nc
                    /\ current_dag' = dag
                    /\ valid_actions' = mask
                    /\ time_step' = ts
                    /\ last_call' = Returned("step", a, decoded, "ok", terminated, after_reset)
                    /\ done' = (done \/ terminated)
             /\ after_reset' = FALSE
             /\ accepted_steps' = accepted_steps + valid_actions[a]
             /\ UNCHANGED <<target_circuit, training, fixed_vars, call_vars, cto>>

\* reset_circuits(), training: whether the sampled circuit ends the loop
AcceptSample_always(mask) == TRUE
AcceptSample(mask) == any(mask)

\* the sampling loop ends with the first sample it accepts; the samples it
\* discards before are overwritten and leave nothing behind
\* the layered graph and the mask of every circuit the generator can return
SampleTable ==
    [qc \in GeneratedCircuits |->
        [dag |-> circuit_to_dag(qc), mask |-> ValidActionsOf(circuit_to_dag(qc))]]

reset_circuits_training ==
    \E qc \in GeneratedCircuits :
        /\ AcceptSample(SampleTable[qc].mask)
        /\ current_circuit' = qc
        /\ current_dag' = SampleTable[qc].dag
        /\ valid_actions' = SampleTable[qc].mask
        /\ target_circuit' = copy(qc)

reset_circuits_evaluation_regenerates == reset_circuits_training
reset_circuits_evaluation ==
    /\ current_circuit' = copy(target_circuit)
    /\ current_dag' = circuit_to_dag(copy(target_circuit))
    /\ valid_actions' = ValidActionsOf(circuit_to_dag(copy(target_circuit)))
    /\ UNCHANGED target_circuit

\* reset(): time_step after the circuits are reset
ResetTimeStep_keeps(t) == t
ResetTimeStep(t) == 0

reset ==
    /\ IF training THEN reset_circuits_training ELSE reset_circuits_evaluation
    /\ time_step' = ResetTimeStep(time_step)
    /\ accepted_steps' = 0
    /\ last_call' = Returned("reset", -1, NoAction, "ok", FALSE, FALSE)
    /\ after_reset' = TRUE
    /\ done' = FALSE
    /\ UNCHANGED <<next_circuit, training, fixed_vars, call_vars, cto>>

Step == \E a \in 0..(action_space_n - 1) : step(a)

Next == reset \/ Step

Spec == Init /\ [][Next]_vars

----------------------------------------------------------------------------
(* circuit_to_obs(qc), one loop iteration at a time.                       *)

RECURSIVE SortedSeq(_)
SortedSeq(S) ==
    IF S = {} THEN << >>
    ELSE LET m == CHOOSE x \in S : \A y \in S : x <= y
         IN  <<m>> \o SortedSeq(S \ {m})

\* the gate nodes of layer l of the dag, in the order they are visited
LayerNodes(dag, l) ==
    LET idx == SortedSeq({i \in DOMAIN dag.nodes : dag.nodes[i].layer = l})
    IN  [k \in DOMAIN idx |-> [layer_idx |-> l, op_node |-> dag.nodes[idx[k]]]]

\* enumerate(dag.layers()) flattened: layers lo.., each with its gate nodes
RECURSIVE LayersFrom(_, _, _)
LayersFrom(dag, lo, hi) ==
    IF lo > hi THEN << >>
    ELSE LayerNodes(dag, lo) \o LayersFrom(dag, lo + 1, hi)

layers(dag) ==
    IF DOMAIN dag.nodes = {} THEN << >>
    ELSE LayersFrom(dag, 0, Max({dag.nodes[i].layer : i \in DOMAIN dag.nodes}))

ObsIndices(shape) ==
    (0..(shape[1] - 1)) \X (0..(shape[2] - 1)) \X (0..(shape[3] - 1))

zeros(shape) == [ix \in ObsIndices(shape) |-> 0]

\* the dimension checks at the head of circuit_to_obs
ExceedsDepth_atleast(qc) == depth(qc) >= max_depth
ExceedsDepth(qc) == depth(qc) > max_depth

ExceedsQubits(qc) == qc.n > num_qubits

\* the cell of the array that is set for a gate node
ObsCell_nolayer(gate_idx, qubit, layer_idx) == <<gate_idx, qubit, 0>>
ObsCell(gate_idx, qubit, layer_idx) == <<gate_idx, qubit, layer_idx>>

\* the circuits handed to circuit_to_obs: up to one qubit and one layer more
\* than the environment holds, and possibly with a gate outside the gate set
ObsInputs ==
    UNION {CircuitsOn(n, {"h"}, max_depth + 1) : n \in 1..(num_qubits + 1)}

\* circuit_to_obs keeps the layered graph of its argument in a local
DagAfterCall_stored(qc) == circuit_to_dag(qc)
DagAfterCall(qc) == current_dag

CtoCall(qc) ==
    /\ cto.pc = "idle"
    /\ IF ExceedsDepth(qc) \/ ExceedsQubits(qc)
       THEN /\ cto' = [CtoIdle EXCEPT !.pc = "done", !.qc = qc,
                                      !.arg = qc, !.env = env_vars,
                                      !.result = "DimensionError"]
            /\ UNCHANGED current_dag
       ELSE /\ cto' = [CtoIdle EXCEPT !.pc = "loop", !.qc = qc,
                                      !.arg = qc, !.env = env_vars,
                                      !.obs = zeros(observation_space_shape),
                                      !.todo = layers(circuit_to_dag(qc))]
            /\ current_dag' = DagAfterCall(qc)
    /\ UNCHANGED <<current_circuit, next_circuit, target_circuit, training,
                   valid_actions, time_step, fixed_vars, call_vars, accepted_steps,
                   last_call, after_reset, done>>

CtoNode ==
    /\ cto.pc = "loop"
    /\ cto.todo # << >>
    /\ LET item == Head(cto.todo)
           ix == indices_from_op_node(cto.qc, item.op_node)
           cell == ObsCell(ix.gate_idx, ix.qubit, item.layer_idx)
       IN  IF ix.error # "none"
           THEN cto' = [cto EXCEPT !.pc = "done",
                                   !.classified = @ + 1,
                                   !.result = "IncompatibleGateError"]
           ELSE IF cell \notin DOMAIN cto.obs
           THEN cto' = [cto EXCEPT !.pc = "done",
                                   !.classified = @ + 1,
                                   !.result = "IndexError"]
           ELSE cto' = [cto EXCEPT !.obs = [@ EXCEPT ![cell] = 1],
                                   !.classified = @ + 1,
                                   !.written = @ + 1,
                                   !.todo = Tail(@)]
    /\ UNCHANGED <<env_vars, fixed_vars, call_vars, accepted_steps, last_call, after_reset, done>>

CtoReturn ==
    /\ cto.pc = "loop"
    /\ cto.todo = << >>
    /\ cto' = [cto EXCEPT !.pc = "done", !.result = "ok"]
    /\ UNCHANGED <<env_vars, fixed_vars, call_vars, accepted_steps, last_call, after_reset, done>>

InitObs == Construct(TRUE, QuantumCircuit(num_qubits), ConfiguredTimeSteps)

CtoStart == \E qc \in ObsInputs : CtoCall(qc)

NextObs == CtoStart \/ CtoNode \/ CtoReturn

SpecObs == InitObs /\ [][NextObs]_vars

----------------------------------------------------------------------------
(* Properties of the episode machine (specification Spec).                 *)

ActionGrid ==
    [layer : 0..(max_depth - 1), qubit : 0..(num_qubits - 1),
     rule : 0..(num_rules - 1)]

IsStepCall == last_call'.op = "step"

\* C1: a step(a) called while action_masks()[a] = 0 raises the invalid-action
\* error and leaves current circuit, layered graph, candidate next circuit,
\* target circuit, validity mask and time_step as they were.
C1_RejectedStepChangesNothing ==
    [][(IsStepCall /\ valid_actions[last_call'.action] = 0)
          => (/\ last_call'.result = "ValueError"
              /\ UNCHANGED env_vars)]_vars

\* a masked-out action was tried in the middle of an episode and was rejected
C1_Witness ==
    /\ last_call.op = "step"
    /\ last_call.result = "ValueError"
    /\ valid_actions[last_call.action] = 0
    /\ any(valid_actions)
    /\ time_step > 0

\* C2: an accepted step returns terminated = true exactly when, after the step,
\* time_step = max_time_steps or the recomputed mask is all-zero.
C2_TerminatedIff ==
    (last_call.op = "step" /\ last_call.result = "ok")
        => (last_call.terminated
              <=> (time_step = max_time_steps \/ \A a \in DOMAIN valid_actions :
                                                     valid_actions[a] = 0))

\* an accepted step ended the episode on the time budget with legal actions left
C2_Witness ==
    /\ last_call.op = "step"
    /\ last_call.result = "ok"
    /\ last_call.terminated
    /\ time_step = max_time_steps
    /\ any(valid_actions)

\* C3: in training mode the mask has a non-zero entry when reset() returns.
C3_TrainingStartHasLegalAction ==
    (training /\ last_call.op = "reset")
        => \E a \in DOMAIN valid_actions : valid_actions[a] = 1

\* a training reset has returned
C3_Witness ==
    /\ training
    /\ last_call.op = "reset"
    /\ current_circuit.data # << >>
    /\ any(valid_actions)

\* C4: after construction, every reset() and every step(), accepted or not,
\* the mask has exactly max_depth * num_qubits * num_rules entries.
C4_MaskLength ==
    /\ DOMAIN valid_actions = 0..(max_depth * num_qubits * num_rules - 1)
    /\ Cardinality(DOMAIN valid_actions) = max_depth * num_qubits * num_rules

\* the mask after an accepted step
C4_Witness ==
    /\ last_call.op = "step"
    /\ last_call.result = "ok"
    /\ Cardinality(DOMAIN valid_actions) = max_depth * num_qubits * num_rules

\* C5: when reset() or an accepted step() returns, mask[a] = 1 exactly when the
\* rule of decode(a) is valid on the committed circuit at its (layer, qubit),
\* and mask[a] = 0 otherwise.
C5_MaskIsFresh ==
    (last_call.op \in {"reset", "step"} /\ last_call.result = "ok")
        => \A a \in 0..(max_depth * num_qubits * num_rules - 1) :
              LET d == decode_action(a)
                  legal == is_valid(d.rule, circuit_to_dag(current_circuit),
                                    d.layer, d.qubit)
              IN  /\ valid_actions[a] \in {0, 1}
                  /\ valid_actions[a] = 1 <=> legal

\* an accepted step committed a circuit other than the one the episode began with
C5_Witness ==
    /\ last_call.op = "step"
    /\ last_call.result = "ok"
    /\ current_circuit # target_circuit
    /\ any(valid_actions)

\* C6: decode and encode are mutual inverses over the grid
\* max_depth x num_qubits x num_rules, so decode is a bijection between the
\* action indices and the triples; the action a step() decodes round-trips.
C6_CodecRoundTrip ==
    /\ \A a \in 0..(max_depth * num_qubits * num_rules - 1) :
          /\ decode_action(a) \in ActionGrid
          /\ encode_action(decode_action(a)) = a
    /\ \A t \in ActionGrid : decode_action(encode_action(t)) = t
    /\ last_call.op = "step"
          => /\ last_call.decoded \in ActionGrid
             /\ encode_action(last_call.decoded) = last_call.action

\* a step decoded an action with non-zero layer, qubit and rule
C6_Witness ==
    /\ last_call.op = "step"
    /\ last_call.decoded.layer > 0
    /\ last_call.decoded.qubit > 0
    /\ last_call.decoded.rule > 0
    /\ encode_action(last_call.decoded) = last_call.action

\* C9 as stated: once a step() has returned terminated = true, no further
\* step() is accepted (no commit, no time_step increment) until reset().
C9_NoStepAfterTerminated ==
    [][(done /\ IsStepCall)
          => (/\ last_call'.result # "ok"
              /\ UNCHANGED <<current_circuit, time_step>>)]_vars

\* C9 as amended: the machine keeps no Terminated state. After a step() has
\* returned terminated = true, a further step(a) before reset() is accepted
\* exactly when mask[a] = 1; so after a termination with an all-zero mask no
\* step is accepted until reset(), while after a termination on the time
\* budget alone a legal action still commits and increments time_step.
C9_StepAfterTerminatedFollowsMask ==
    [][(done /\ IsStepCall)
          => (/\ (last_call'.result = "ok") <=> (valid_actions[last_call'.action] = 1)
              /\ last_call'.result = "ok"
                    => (time_step' = time_step + 1 /\ current_circuit' = next_circuit')
              /\ last_call'.result # "ok" => UNCHANGED env_vars
              /\ ~any(valid_actions) => (last_call'.result # "ok" /\ UNCHANGED env_vars))]_vars

\* a step was tried and rejected after the episode ended in a dead end
C9_Witness ==
    /\ done
    /\ ~any(valid_actions)
    /\ last_call.op = "step"
    /\ last_call.result = "ValueError"
    /\ ~last_call.first
    /\ time_step > 0

\* C10 as stated: in evaluation mode, when reset() leaves an all-zero mask, the
\* first step() after that reset reports terminated = true.
C10_FirstStepTerminates ==
    [][(after_reset /\ ~training /\ ~any(valid_actions) /\ IsStepCall)
          => last_call'.terminated]_vars

\* C10 as amended: in evaluation mode, when reset() leaves an all-zero mask, the
\* first step() after that reset is rejected for every action: it raises the
\* invalid-action error, reports no terminated flag and changes nothing.
C10_FirstStepRejected ==
    [][(after_reset /\ ~training /\ ~any(valid_actions) /\ IsStepCall)
          => (/\ last_call'.result = "ValueError"
              /\ ~last_call'.terminated
              /\ UNCHANGED env_vars)]_vars

\* the first step after an evaluation reset onto a target without legal rewrite
C10_Witness ==
    /\ ~training
    /\ last_call.op = "step"
    /\ last_call.first
    /\ last_call.result = "ValueError"
    /\ ~any(valid_actions)
    /\ current_circuit = target_circuit
    /\ target_circuit.data # << >>

----------------------------------------------------------------------------
(* Properties of circuit_to_obs (specification SpecObs).                   *)

\* the gate nodes of qc recorded as (layer, first qubit, gate class)
Recorded(qc) ==
    LET dag == circuit_to_dag(qc)
    IN  {<<dag.nodes[i].layer,
           indices_from_op_node(qc, dag.nodes[i]).qubit,
           indices_from_op_node(qc, dag.nodes[i]).gate_idx>> : i \in DOMAIN dag.nodes}

Classifiable(qc) ==
    \A i \in DOMAIN qc.data :
        indices_from_op_node(qc, [op |-> qc.data[i], layer |-> 0]).error = "none"

\* C7: the observation has shape (max_depth, num_qubits, num_gate_classes) and
\* its cell (layer l, qubit q, class c) is 1 exactly when a gate of class c is
\* recorded on qubit q in layer l of qc, whatever the three dimensions are.
C7_ObsCellsFollowLayout ==
    (/\ cto.pc = "done"
     /\ depth(cto.qc) <= max_depth
     /\ cto.qc.n <= num_qubits
     /\ Classifiable(cto.qc))
        => /\ cto.result = "ok"
           /\ DOMAIN cto.obs =
                 (0..(max_depth - 1)) \X (0..(num_qubits - 1))
                     \X (0..(Len(gate_classes) - 1))
           /\ \A ix \in DOMAIN cto.obs :
                 cto.obs[ix] = (IF ix \in Recorded(cto.qc) THEN 1 ELSE 0)

\* C8: circuit_to_obs raises the dimension error whenever the depth exceeds
\* max_depth or the qubit count exceeds num_qubits, before any gate is
\* classified and before any cell is written, and raises none when depth and
\* qubit count equal the maxima.
C8_DimensionChecksFirst ==
    cto.pc # "idle"
        => /\ (depth(cto.qc) > max_depth \/ cto.qc.n > num_qubits)
                 => /\ cto.pc = "done"
                    /\ cto.result = "DimensionError"
                    /\ cto.classified = 0
                    /\ cto.written = 0
                    /\ cto.obs = << >>
           /\ (depth(cto.qc) = max_depth /\ cto.qc.n = num_qubits)
                 => cto.result # "DimensionError"

\* a circuit one layer too deep, on as many qubits as allowed, was refused
C8_Witness ==
    /\ cto.pc = "done"
    /\ cto.result = "DimensionError"
    /\ depth(cto.qc) = max_depth + 1
    /\ cto.qc.n = num_qubits
    /\ Classifiable(cto.qc)

-----------------------------------------------------------------------------
(* The decoded coordinates in closed form.                                 *)

\* C19: decode_action unravels in row-major order over
\* (max_depth, num_qubits, num_rules): for every index a in range, and for the
\* action every step() call decoded, the triple is
\* (a div (num_qubits*num_rules), (a div num_rules) mod num_qubits,
\* a mod num_rules), so consecutive indices differ in the rule first and the
\* layer changes only every num_qubits*num_rules indices.
C19_RowMajorClosedForm ==
    /\ \A a \in 0..(action_space_n - 1) :
          /\ decode_action(a).layer = a \div (num_qubits * num_rules)
          /\ decode_action(a).qubit = (a \div num_rules) % num_qubits
          /\ decode_action(a).rule = a % num_rules
    /\ last_call.op = "step"
          => /\ last_call.decoded.layer = last_call.action \div (num_qubits * num_rules)
             /\ last_call.decoded.qubit = (last_call.action \div num_rules) % num_qubits
             /\ last_call.decoded.rule = last_call.action % num_rules

\* a step decoded index 1 to the second rule at layer 0, qubit 0: the rule
\* index is the one that moved
C19_Witness ==
    /\ last_call.op = "step"
    /\ last_call.action = 1
    /\ last_call.decoded = [layer |-> 0, qubit |-> 0, rule |-> 1]

-----------------------------------------------------------------------------
(* Evaluation mode.                                                        *)

\* C13: in evaluation mode the target circuit is, after any sequence of
\* reset() and step() calls, still the circuit the environment was built
\* with, and when reset() returns the current circuit is a copy of that target
\* with the layered graph and mask computed from it and time_step 0, whatever
\* steps were taken before.
C13_EvaluationTargetKept ==
    ~training =>
        /\ target_circuit = supplied_target
        /\ last_call.op = "reset" =>
              /\ current_circuit = copy(supplied_target)
              /\ current_dag = circuit_to_dag(supplied_target)
              /\ valid_actions = ValidActionsOf(circuit_to_dag(supplied_target))
              /\ time_step = 0

\* an evaluation reset() returned after a step had committed a circuit other
\* than the target: the candidate of that step is still in next_circuit
C13_Witness ==
    /\ ~training
    /\ last_call.op = "reset"
    /\ next_circuit # supplied_target
    /\ current_circuit = supplied_target

-----------------------------------------------------------------------------
(* Every public operation of a constructed environment.                    *)

\* action_masks(): returns the stored mask
action_masks ==
    /\ last_call' = Returned("action_masks", -1, NoAction, "ok", FALSE, FALSE)
    /\ UNCHANGED <<env_vars, fixed_vars, call_vars, accepted_steps, after_reset, done, cto>>

\* decode_action(action), called from outside step()
decode_action_call(a) ==
    /\ last_call' = Returned("decode_action", a, decode_action(a), "ok", FALSE, FALSE)
    /\ UNCHANGED <<env_vars, fixed_vars, call_vars, accepted_steps, after_reset, done, cto>>

\* format_action(action): the text names the decoded rule, layer and qubit
format_action(a) ==
    /\ last_call' = Returned("format_action", a, decode_action(a),
                             transformation_rules[decode_action(a).rule + 1], FALSE, FALSE)
    /\ UNCHANGED <<env_vars, fixed_vars, call_vars, accepted_steps, after_reset, done, cto>>

Query ==
    \/ action_masks
    \/ \E a \in 0..(action_space_n - 1) : decode_action_call(a)
    \/ \E a \in 0..(action_space_n - 1) : format_action(a)

NextCalls == reset \/ Step \/ Query

SpecCalls == Init /\ [][NextCalls]_vars

\* C14: time_step counts the accepted steps of the episode: it is 0 after
\* construction and after every reset(), it equals the number of step() calls
\* made with a legal action since then, and the calls that are not accepted
\* steps (a rejected step, action_masks, decode_action, format_action) leave
\* it as it was.
C14_TimeStepCountsAcceptedSteps ==
    /\ time_step = accepted_steps
    /\ last_call.op \in {"init", "reset"} => time_step = 0
    /\ (last_call.op = "step" /\ last_call.result = "ok") => time_step >= 1

\* two accepted steps, then a query, and time_step is still 2
C14_Witness ==
    /\ time_step = 2
    /\ accepted_steps = 2
    /\ last_call.op = "format_action"

-----------------------------------------------------------------------------
(* The time budget, for every max_time_steps the constructor accepts.      *)

\* __init__ stores max_time_steps as given
TimeBudgets == 0..ConfiguredTimeSteps

InitBudget ==
    \E tr \in BOOLEAN :
        \E target \in (IF tr THEN {QuantumCircuit(num_qubits)} ELSE TargetCircuits) :
            \E mts \in TimeBudgets : Construct(tr, target, mts)

SpecBudget == InitBudget /\ [][Next]_vars

\* C15 as stated: max_time_steps bounds every episode, whatever its configured
\* value: an accepted step that brings the count of accepted steps to
\* max_time_steps or beyond returns terminated = true or follows a step that
\* did, and time_step exceeds max_time_steps only after a step has returned
\* terminated = true.
C15_BudgetBoundsEpisode ==
    /\ (last_call.op = "step" /\ last_call.result = "ok"
            /\ time_step >= max_time_steps) => done
    /\ time_step > max_time_steps => done

-----------------------------------------------------------------------------
(* Gates outside the configured gate classes.                              *)

\* the positions (from 0) of the gate classes whose equals_gate accepts the gate
MatchingClasses(op) ==
    {i - 1 : i \in {j \in DOMAIN gate_classes :
                      equals_gate(gate_classes[j], op.qargs[1], op, op.qargs)}}

\* C17 as stated: circuit_to_obs(qc), for a qc within the dimension limits,
\* ends in the incompatible-gate error if some gate of qc matches no
\* configured gate class, and every cell it sets for a gate carries the
\* position of the first gate class, in configuration order, that accepts
\* the gate.
C17_IncompatibleGateReported ==
    /\ (/\ cto.pc = "done"
        /\ ~ExceedsDepth(cto.qc)
        /\ ~ExceedsQubits(cto.qc)
        /\ ~Classifiable(cto.qc))
           => cto.result = "IncompatibleGateError"
    /\ \A ix \in DOMAIN cto.obs :
          cto.obs[ix] = 1 =>
              \E i \in DOMAIN cto.qc.data :
                  LET op == cto.qc.data[i]
                  IN  /\ MatchingClasses(op) # {}
                      /\ ix[1] = CHOOSE c \in MatchingClasses(op) :
                                     \A e \in MatchingClasses(op) : c <= e
                      /\ ix[2] = op.qargs[1]

-----------------------------------------------------------------------------
(* circuit_to_obs and the state of the environment.                        *)

\* C20: circuit_to_obs is read-only: at every point of a call, and when it has
\* returned or raised, current circuit, layered graph, target circuit, mask
\* and time_step (and the rest of the environment's fields) are what they were
\* when the call was made, and the circuit passed in is as it was passed.
C20_CircuitToObsReadOnly ==
    cto.pc # "idle"
        => /\ env_vars = cto.env
           /\ cto.qc = cto.arg

\* a call wrote a cell and then raised for a gate outside the gate classes
C20_Witness ==
    /\ cto.pc = "done"
    /\ cto.result = "IncompatibleGateError"
    /\ cto.written > 0
    /\ env_vars = cto.env

-----------------------------------------------------------------------------
(* step(action), one statement at a time.                                  *)

\* the fields of the environment read at one point of a call
EnvNow ==
    [current_circuit |-> current_circuit, current_dag |-> current_dag,
     next_circuit |-> next_circuit, target_circuit |-> target_circuit,
     valid_actions |-> valid_actions, time_step |-> time_step]

\* the reward() hook of the task variant reads the environment; here the
\* number of gates the candidate saves over the committed circuit
reward == Len(current_circuit.data) - Len(next_circuit.data)

\* step(): the statement that follows the assignment of next_circuit
AfterBuild_commit == "commit"
AfterBuild == "reward"

\* decode, test the mask, build the candidate
StepCall(a) ==
    /\ stp.pc = "idle"
    /\ IF Rejects(a)
       THEN /\ last_call' = Returned("step", a, decode_action(a), "ValueError",
                                     FALSE, after_reset)
            /\ UNCHANGED <<next_circuit, stp>>
       ELSE /\ time_step < TimeStepCap
            /\ next_circuit' = build_next_circuit(decode_action(a))
            /\ stp' = [StpIdle EXCEPT !.pc = AfterBuild, !.action = a,
                                      !.decoded = decode_action(a),
                                      !.before = EnvNow]
            /\ UNCHANGED last_call
    /\ after_reset' = FALSE
    /\ accepted_steps' = accepted_steps + valid_actions[a]
    /\ UNCHANGED <<current_circuit, current_dag, target_circuit, training,
                   valid_actions, time_step, fixed_vars, beside_stp, done, cto>>

\* reward = self.reward()
StepReward ==
    /\ stp.pc = "reward"
    /\ stp' = [stp EXCEPT !.pc = (IF stp.committed THEN "increment" ELSE "commit"),
                          !.rewarded = TRUE,
                          !.seen = EnvNow,
                          !.reward = reward]
    /\ UNCHANGED <<env_vars, fixed_vars, beside_stp, accepted_steps, last_call, after_reset,
                   done, cto>>

\* step(): the layered graph built after the commit
CommittedDag_previous(qc) == current_dag
CommittedDag(qc) == circuit_to_dag(qc)

\* self.current_circuit = self.next_circuit
StepCommit ==
    /\ stp.pc = "commit"
    /\ current_circuit' = next_circuit
    /\ stp' = [stp EXCEPT !.pc = "dag"]
    /\ UNCHANGED <<current_dag, next_circuit, target_circuit, training,
                   valid_actions, time_step, fixed_vars, beside_stp,
                   accepted_steps, last_call, after_reset, done, cto>>

\* self.current_dag = circuit_to_dag(self.current_circuit)
StepDag ==
    /\ stp.pc = "dag"
    /\ current_dag' = CommittedDag(current_circuit)
    /\ stp' = [stp EXCEPT !.pc = "mask"]
    /\ UNCHANGED <<current_circuit, next_circuit, target_circuit, training,
                   valid_actions, time_step, fixed_vars, beside_stp,
                   accepted_steps, last_call, after_reset, done, cto>>

\* self._set_valid_actions(): is_valid reads the environment's layered graph
StepSetMask ==
    /\ stp.pc = "mask"
    /\ valid_actions' = StepMask(current_dag)
    /\ stp' = [stp EXCEPT !.pc = (IF stp.rewarded THEN "increment" ELSE "reward"),
                          !.committed = TRUE]
    /\ UNCHANGED <<current_circuit, current_dag, next_circuit, target_circuit,
                   training, time_step, fixed_vars, beside_stp, accepted_steps,
                   last_call, after_reset, done, cto>>

\* increment time_step, compute terminated, return
StepReturn ==
    /\ stp.pc = "increment"
    /\ time_step' = time_step + 1
    /\ last_call' = Returned("step", stp.action, stp.decoded, "ok",
                             Terminated(time_step + 1, valid_actions), FALSE)
    /\ done' = (done \/ Terminated(time_step + 1, valid_actions))
    /\ stp' = StpIdle
    /\ UNCHANGED <<current_circuit, current_dag, next_circuit, target_circuit,
                   training, valid_actions, fixed_vars, beside_stp, accepted_steps,
                   after_reset, cto>>

\* reset() is called between steps
ResetBetweenSteps ==
    /\ stp.pc = "idle"
    /\ reset

NextStep ==
    \/ ResetBetweenSteps
    \/ \E a \in 0..(action_space_n - 1) : StepCall(a)
    \/ StepReward
    \/ StepCommit
    \/ StepDag
    \/ StepSetMask
    \/ StepReturn

SpecStep == Init /\ [][NextStep]_vars

\* C11: within an accepted step() the candidate is built first, reward() is
\* evaluated next, then the candidate is committed and layered graph and mask
\* are recomputed, and time_step is incremented last. What reward() reads is
\* the current circuit, layered graph, mask and time_step from before the
\* step, with next_circuit the candidate built from them.
C11_RewardBeforeCommit ==
    LET before == stp.before
        candidate == apply(stp.decoded.rule, before.current_circuit,
                           before.current_dag, stp.decoded.layer, stp.decoded.qubit)
    IN  /\ stp.pc \in {"reward", "commit", "dag", "mask", "increment"}
              => /\ next_circuit = candidate
                 /\ time_step = before.time_step
        /\ stp.pc \in {"dag", "mask"} => stp.rewarded
        /\ (stp.pc \in {"reward", "commit", "increment"} /\ stp.committed)
              => /\ stp.rewarded
                 /\ current_circuit = candidate
                 /\ current_dag = circuit_to_dag(candidate)
                 /\ valid_actions = ValidActionsOf(circuit_to_dag(candidate))
        /\ stp.rewarded
              => /\ stp.seen = [before EXCEPT !.next_circuit = candidate]
                 /\ stp.reward = Len(before.current_circuit.data) - Len(candidate.data)
        /\ stp.pc = "increment" => (stp.rewarded /\ stp.committed)

\* reward() has been evaluated on a candidate one gate shorter than the
\* current circuit, and the commit has not happened yet
C11_Witness ==
    /\ stp.pc = "commit"
    /\ stp.rewarded
    /\ ~stp.committed
    /\ stp.reward = 1
    /\ stp.seen.current_circuit # stp.seen.next_circuit
    /\ current_circuit = stp.before.current_circuit

-----------------------------------------------------------------------------
(* reset(), one statement at a time.                                       *)

\* reset_circuits(), training: the target while a sample is stored as the
\* current circuit
TargetAtSample_assigned(qc) == copy(qc)
TargetAtSample(qc) == target_circuit

\* the call: the episode before it is over
ResetCall ==
    /\ rst.pc = "idle"
    /\ rst' = [RstIdle EXCEPT !.pc = "circuits", !.target_at_call = target_circuit]
    /\ last_call' = Returned("reset", -1, NoAction, "running", FALSE, FALSE)
    /\ after_reset' = FALSE
    /\ done' = FALSE
    /\ accepted_steps' = 0
    /\ UNCHANGED <<env_vars, fixed_vars, beside_rst, cto>>

\* training: one pass of the loop body up to the test
ResetSample(qc) ==
    /\ rst.pc = "circuits"
    /\ training
    /\ current_circuit' = qc
    /\ current_dag' = SampleTable[qc].dag
    /\ valid_actions' = SampleTable[qc].mask
    /\ target_circuit' = TargetAtSample(qc)
    /\ rst' = [rst EXCEPT !.pc = "test"]
    /\ UNCHANGED <<next_circuit, training, time_step, fixed_vars, beside_rst,
                   accepted_steps, last_call, after_reset, done, cto>>

\* reset_circuits(), training: where a discarded sample leaves the loop; the
\* while True has no counter and no other exit than the break
AfterDiscard_raises == "error"
AfterDiscard == "circuits"

\* training: the test that ends the loop
ResetTest ==
    /\ rst.pc = "test"
    /\ IF AcceptSample(valid_actions)
       THEN /\ target_circuit' = copy(current_circuit)
            /\ rst' = [rst EXCEPT !.pc = "time"]
       ELSE /\ rst' = [rst EXCEPT !.pc = AfterDiscard, !.discarded = TRUE]
            /\ UNCHANGED target_circuit
    /\ UNCHANGED <<current_circuit, current_dag, next_circuit, training,
                   valid_actions, time_step, fixed_vars, beside_rst,
                   accepted_steps, last_call, after_reset, done, cto>>

\* evaluation: the else branch
ResetCopy ==
    /\ rst.pc = "circuits"
    /\ ~training
    /\ reset_circuits_evaluation
    /\ rst' = [rst EXCEPT !.pc = "time"]
    /\ UNCHANGED <<next_circuit, training, time_step, fixed_vars, beside_rst,
                   accepted_steps, last_call, after_reset, done, cto>>

\* time_step = 0 and the return
ResetReturn ==
    /\ rst.pc = "time"
    /\ time_step' = ResetTimeStep(time_step)
    /\ accepted_steps' = 0
    /\ last_call' = Returned("reset", -1, NoAction, "ok", FALSE, FALSE)
    /\ after_reset' = TRUE
    /\ done' = FALSE
    /\ rst' = RstIdle
    /\ UNCHANGED <<current_circuit, current_dag, next_circuit, target_circuit,
                   training, valid_actions, fixed_vars, beside_rst, cto>>

\* step() is called between resets
StepBetweenResets ==
    /\ rst.pc = "idle"
    /\ Step

NextReset ==
    \/ ResetCall
    \/ \E qc \in GeneratedCircuits : ResetSample(qc)
    \/ ResetTest
    \/ ResetCopy
    \/ ResetReturn
    \/ StepBetweenResets

SpecReset == Init /\ [][NextReset]_vars

\* C12: in training mode the target circuit is, all through the sampling
\* loop, still the target reset() was called with, so no sample that is
\* discarded for an all-zero mask becomes the target; the target is assigned
\* once, from the accepted sample, and when reset() returns the target equals
\* the current circuit, which has a legal action.
C12_TargetIsAcceptedSample ==
    training =>
        /\ rst.pc \in {"circuits", "test"} => target_circuit = rst.target_at_call
        /\ rst.pc = "time" =>
              /\ target_circuit = current_circuit
              /\ any(valid_actions)
        /\ (rst.pc = "idle" /\ last_call.op = "reset" /\ last_call.result = "ok") =>
              /\ target_circuit = current_circuit
              /\ current_dag = circuit_to_dag(current_circuit)
              /\ valid_actions = ValidActionsOf(current_dag)
              /\ any(valid_actions)

\* a sample was discarded, a later one was accepted and copied into the
\* target, which is no longer the target reset() was called with
C12_Witness ==
    /\ training
    /\ rst.pc = "time"
    /\ rst.discarded
    /\ target_circuit = current_circuit
    /\ target_circuit # rst.target_at_call
    /\ rst.target_at_call # QuantumCircuit(num_qubits)

-----------------------------------------------------------------------------
(* The constructor, for arguments that need not be a usable configuration. *)

\* the variables of the environment of Spec take no part in the
\* specifications that follow a constructor call or a pair of environments
EnvAside ==
    /\ stp = StpIdle
    /\ rst = RstIdle
    /\ training = TRUE
    /\ target_circuit = QuantumCircuit(num_qubits)
    /\ supplied_target = QuantumCircuit(num_qubits)
    /\ max_time_steps = ConfiguredTimeSteps
    /\ accepted_steps = 0
    /\ current_circuit = QuantumCircuit(num_qubits)
    /\ current_dag = circuit_to_dag(QuantumCircuit(num_qubits))
    /\ next_circuit = QuantumCircuit(num_qubits)
    /\ time_step = 0
    /\ valid_actions = ValidActionsOf(circuit_to_dag(QuantumCircuit(num_qubits)))
    /\ last_call = Returned("none", -1, NoAction, "ok", FALSE, FALSE)
    /\ after_reset = FALSE
    /\ done = FALSE
    /\ cto = CtoIdle

InitCtor ==
    /\ gen = Absent
    /\ RoutingAside
    /\ ctor = [CtorReturned EXCEPT !.pc = "idle", !.n = 0, !.result = "none"]
    /\ envs = << >>
    /\ template_params = << >>
    /\ twin_call = << >>
    /\ EnvAside

\* spaces.Discrete(n) accepts positive counts only
DiscreteRejects_negative(n) == n < 0
DiscreteRejects(n) == n <= 0

\* QuantumCircuit(num_qubits) refuses a negative register size
RegisterRejects(nq) == nq < 0

\* the call, with the dimensions and the number of rules in the rule list
CtorCall(md, nq, nr) ==
    /\ ctor.pc = "idle"
    /\ ctor' = [ctor EXCEPT !.pc = "action_space", !.max_depth = md,
                            !.num_qubits = nq, !.num_rules = nr]
    /\ UNCHANGED <<env_vars, fixed_vars, beside_ctor, accepted_steps, last_call,
                   after_reset, done, cto>>

\* self.action_space = spaces.Discrete(max_depth * num_qubits * len(rules))
CtorActionSpace ==
    /\ ctor.pc = "action_space"
    /\ LET n == ctor.max_depth * ctor.num_qubits * ctor.num_rules
       IN  IF DiscreteRejects(n)
           THEN ctor' = [ctor EXCEPT !.pc = "returned", !.n = n,
                                     !.result = "AssertionError"]
           ELSE ctor' = [ctor EXCEPT !.pc = "circuits", !.n = n]
    /\ UNCHANGED <<env_vars, fixed_vars, beside_ctor, accepted_steps, last_call,
                   after_reset, done, cto>>

\* the empty circuits on num_qubits qubits
CtorCircuits ==
    /\ ctor.pc = "circuits"
    /\ IF RegisterRejects(ctor.num_qubits)
       THEN ctor' = [ctor EXCEPT !.pc = "returned", !.result = "CircuitError"]
       ELSE ctor' = [ctor EXCEPT !.pc = "mask"]
    /\ UNCHANGED <<env_vars, fixed_vars, beside_ctor, accepted_steps, last_call,
                   after_reset, done, cto>>

\* time_step = 0, the mask of the empty circuit, and the return
CtorMask ==
    /\ ctor.pc = "mask"
    /\ ctor' = [ctor EXCEPT !.pc = "returned", !.result = "ok"]
    /\ UNCHANGED <<env_vars, fixed_vars, beside_ctor, accepted_steps, last_call,
                   after_reset, done, cto>>

\* reset() or step() is called on the environment the constructor returned
CtorUse ==
    /\ ctor.pc = "returned"
    /\ ctor.result = "ok"
    /\ ~ctor.used
    /\ ctor' = [ctor EXCEPT !.used = TRUE]
    /\ UNCHANGED <<env_vars, fixed_vars, beside_ctor, accepted_steps, last_call,
                   after_reset, done, cto>>

NextCtor ==
    \/ \E md \in -1..max_depth : \E nq \in -1..num_qubits : \E nr \in 0..num_rules :
           CtorCall(md, nq, nr)
    \/ CtorActionSpace
    \/ CtorCircuits
    \/ CtorMask
    \/ CtorUse

SpecCtor == InitCtor /\ [][NextCtor]_vars

\* C16: a constructor call with an empty rule list or with max_depth <= 0
\* ends in an error, raised before the circuits and the mask are set up, so
\* no environment is returned on which reset() or step() could be called.
C16_BadConfigurationRaises ==
    (ctor.num_rules = 0 \/ ctor.max_depth <= 0) =>
        /\ ctor.pc \in {"idle", "action_space", "circuits", "returned"}
        /\ ctor.pc = "returned" => ctor.result \in {"AssertionError", "CircuitError"}
        /\ ~ctor.used

\* the constructor was called with an empty rule list on positive dimensions
\* and raised at the action space
C16_Witness ==
    /\ ctor.pc = "returned"
    /\ ctor.num_rules = 0
    /\ ctor.max_depth > 0
    /\ ctor.num_qubits > 0
    /\ ctor.result = "AssertionError"

-----------------------------------------------------------------------------
(* Two environments built by env_fn from one list of gate classes and one  *)
(* list of rules.                                                          *)

TwinGates == 1
TwinDraws == 2

\* the circuits the generator returns to the two environments
TwinSamples == {qc \in GeneratedCircuits : Len(qc.data) <= TwinGates}

\* the values rng.uniform() draws for the parameters of a gate; 0 is the
\* parameter the gate classes were configured with
ParamDraws == 1..TwinDraws

\* _generate_random_circuit(): the gate appended is a copy of the gate of the
\* gate class, and the drawn parameters are assigned to the copy
GeneratedGate_template(v) == [shared |-> TRUE, params |-> v]
GeneratedGate(v) == [shared |-> FALSE, params |-> v]

\* what __init__ assigns: every environment has circuits, mask and counter of
\* its own
TwinConstructed ==
    [current_circuit |-> QuantumCircuit(num_qubits),
     target_circuit |-> QuantumCircuit(num_qubits),
     valid_actions |-> ValidActionsOf(circuit_to_dag(QuantumCircuit(num_qubits))),
     time_step |-> 0,
     gate |-> [shared |-> FALSE, params |-> 0]]

\* the parameters read from the gates of the circuits of environment e
ParamsOf(e) == IF e.gate.shared THEN template_params ELSE e.gate.params

\* current circuit, target circuit, mask and time_step of environment i as a
\* caller reads them
TwinView(i) ==
    [current_circuit |-> envs[i].current_circuit,
     target_circuit |-> envs[i].target_circuit,
     valid_actions |-> envs[i].valid_actions,
     time_step |-> envs[i].time_step,
     params |-> ParamsOf(envs[i])]

Other(i) == 3 - i

InitTwo ==
    /\ gen = Absent
    /\ RoutingAside
    /\ envs = [i \in 1..2 |-> TwinConstructed]
    /\ template_params = 0
    /\ twin_call = [op |-> "none", on |-> 1, result |-> "ok",
                    other_before |-> << >>]
    /\ ctor = CtorReturned
    /\ EnvAside

\* reset() on environment i, in training mode
TwinReset(i) ==
    \E qc \in TwinSamples : \E v \in ParamDraws :
        /\ AcceptSample(SampleTable[qc].mask)
        /\ envs' = [envs EXCEPT ![i] =
                        [current_circuit |-> qc,
                         target_circuit |-> copy(qc),
                         valid_actions |-> SampleTable[qc].mask,
                         time_step |-> 0,
                         gate |-> GeneratedGate(v)]]
        /\ template_params' =
              (IF GeneratedGate(v).shared THEN v ELSE template_params)
        /\ twin_call' = [op |-> "reset", on |-> i, result |-> "ok",
                         other_before |-> TwinView(Other(i))]
        /\ UNCHANGED <<env_vars, fixed_vars, beside_twin, accepted_steps,
                       last_call, after_reset, done, cto>>

\* step(a) on environment i
TwinStep(i, a) ==
    LET e == envs[i]
        d == decode_action(a)
        nc == apply(d.rule, e.current_circuit, circuit_to_dag(e.current_circuit),
                    d.layer, d.qubit)
    IN  /\ IF e.valid_actions[a] = 0
           THEN /\ twin_call' = [op |-> "step", on |-> i, result |-> "ValueError",
                                 other_before |-> TwinView(Other(i))]
                /\ UNCHANGED envs
           ELSE /\ e.time_step < TimeStepCap
                /\ envs' = [envs EXCEPT ![i] =
                                [e EXCEPT !.current_circuit = nc,
                                          !.valid_actions = ValidActionsOf(circuit_to_dag(nc)),
                                          !.time_step = @ + 1]]
                /\ twin_call' = [op |-> "step", on |-> i, result |-> "ok",
                                 other_before |-> TwinView(Other(i))]
        /\ UNCHANGED <<env_vars, fixed_vars, beside_twin, accepted_steps,
                       template_params, last_call, after_reset, done, cto>>

NextTwo ==
    \/ \E i \in 1..2 : TwinReset(i)
    \/ \E i \in 1..2 : \E a \in 0..(action_space_n - 1) : TwinStep(i, a)

SpecTwo == InitTwo /\ [][NextTwo]_vars

\* C18: two environments built from the same gate classes and rules are
\* isolated: after every reset() or step() on one of them, in any
\* interleaving, the other's current circuit, target circuit, validity mask
\* and time_step (and the parameters of the gates in its circuits) are what
\* they were before the call.
C18_InstancesIsolated ==
    twin_call.op # "none" =>
        TwinView(Other(twin_call.on)) = twin_call.other_before

\* a reset() on one environment drew other parameters than the circuit of
\* the other, which has taken a step of its own, holds
C18_Witness ==
    /\ twin_call.op = "reset"
    /\ envs[Other(twin_call.on)].time_step > 0
    /\ ParamsOf(envs[twin_call.on]) # ParamsOf(envs[Other(twin_call.on)])
    /\ ParamsOf(envs[Other(twin_call.on)]) # 0
    /\ envs[1].current_circuit # envs[2].current_circuit

-----------------------------------------------------------------------------
(* The routing pipeline: TrainingWrapper.                                  *)

MaxEpisodesPerCircuit == 3
MaxInterval == 3
MaxResets == 8

\* the transformation environment takes no part in the routing pipeline
TransformationAside ==
    /\ gen = Absent
    /\ dq = Absent
    /\ ctor = CtorReturned
    /\ envs = << >>
    /\ template_params = << >>
    /\ twin_call = << >>
    /\ EnvAside

\* _generate_random_mapping(num_qubits): the shuffles of the qubits, numbered
Mappings == 1..num_qubits

\* TrainingWrapper.__init__ with arguments it accepts. circuit numbers the
\* circuits generate() has returned (0: none yet), calibrations counts the
\* calls of env.calibrate(). Kept beside the wrapper: on_circuit, the
\* episodes begun on the current circuit; routed, the circuits of the
\* episodes begun since the last calibration; and what the last reset() did
TrainingWrapperInit(noise, interval, epc) ==
    [noise_aware |-> noise, recalibration_interval |-> interval,
     episodes_per_circuit |-> epc, current_iter |-> 0, circuit |-> 0,
     initial_mapping |-> 0, calibrations |-> 0,
     on_circuit |-> 0, routed |-> 0,
     last |-> [generated |-> FALSE, calibrated |-> FALSE,
               replaced_after |-> 0, span |-> 0]]

InitTraining ==
    /\ \E noise \in BOOLEAN :
          \E interval \in 1..MaxInterval :
              \E epc \in 1..MaxEpisodesPerCircuit :
                  tw = TrainingWrapperInit(noise, interval, epc)
    /\ ew = Absent
    /\ ev = Absent
    /\ trainer = Absent
    /\ TransformationAside

\* reset(): the test before circuit_generator.generate()
GeneratesCircuit_after(iter, epc) == (iter + 1) % epc = 0
GeneratesCircuit(iter, epc) == iter % epc = 0

\* reset(): the test before env.calibrate()
Recalibrates(noise, iter, interval) == noise /\ iter % interval = 0

\* TrainingWrapper.reset()
TrainingReset ==
    /\ tw.current_iter < MaxResets
    /\ \E m \in Mappings :
          LET generates == GeneratesCircuit(tw.current_iter, tw.episodes_per_circuit)
              calibrates == Recalibrates(tw.noise_aware, tw.current_iter,
                                         tw.recalibration_interval)
          IN  tw' = [tw EXCEPT
                  !.initial_mapping = m,
                  !.circuit = IF generates THEN @ + 1 ELSE @,
                  !.calibrations = IF calibrates THEN @ + 1 ELSE @,
                  !.current_iter = @ + 1,
                  !.on_circuit = IF generates THEN 1 ELSE @ + 1,
                  !.routed = IF calibrates THEN 1
                             ELSE IF generates THEN @ + 1 ELSE @,
                  !.last = [generated |-> generates,
                            calibrated |-> calibrates,
                            replaced_after |-> IF generates THEN tw.on_circuit ELSE 0,
                            span |-> IF calibrates THEN tw.routed ELSE 0]]
    /\ UNCHANGED <<transformation_vars, ew, ev, trainer>>

NextTraining == TrainingReset

SpecTraining == InitTraining /\ [][NextTraining]_vars

\* C21: a reset() of the TrainingWrapper generates a circuit exactly when the
\* number of resets before it is a multiple of episodes_per_circuit, so a
\* circuit that is replaced has begun exactly episodes_per_circuit episodes
\* and no circuit begins more; current_iter is the number of resets.
C21_CircuitEveryEpisodesPerCircuit ==
    /\ tw.current_iter > 0 =>
          /\ tw.last.generated <=>
                 ((tw.current_iter - 1) % tw.episodes_per_circuit = 0)
          /\ tw.circuit = ((tw.current_iter - 1) \div tw.episodes_per_circuit) + 1
          /\ tw.on_circuit = ((tw.current_iter - 1) % tw.episodes_per_circuit) + 1
    /\ tw.on_circuit <= tw.episodes_per_circuit
    /\ (tw.last.generated /\ tw.circuit > 1) =>
          tw.last.replaced_after = tw.episodes_per_circuit
    /\ tw.current_iter = 0 => tw.circuit = 0

\* the second circuit has just replaced the first after two episodes
C21_Witness ==
    /\ tw.episodes_per_circuit = 2
    /\ tw.current_iter = 3
    /\ tw.circuit = 2
    /\ tw.last.generated
    /\ tw.last.replaced_after = 2

\* C22 as stated: in a noise-aware wrapper the episodes between two
\* consecutive recalibrations route exactly recalibration_interval generated
\* circuits, whatever episodes_per_circuit is, and a wrapper that is not
\* noise-aware never recalibrates.
C22_RecalibratesAfterIntervalCircuits ==
    /\ (tw.last.calibrated /\ tw.calibrations > 1) =>
          tw.last.span = tw.recalibration_interval
    /\ ~tw.noise_aware => tw.calibrations = 0

-----------------------------------------------------------------------------
(* The routing pipeline: EvaluationWrapper.                                *)

MaxEvaluationIters == 3
RateDraws == 2

\* noise_generator.generate_error_rates(): the draws, numbered; 0 stands for
\* the error rates the env was built with
ErrorRates == 1..RateDraws

\* EvaluationWrapper.__init__: rates is the draw of the noise generator, used
\* only if one is given; m is the shuffle chosen for the initial mapping
EvaluationWrapperInit(iters, noise_given, rates, m) ==
    [evaluation_iters |-> iters, current_iter |-> 0, circuit |-> 0,
     error_rates |-> IF noise_given THEN rates ELSE 0,
     calibrations |-> IF noise_given THEN 1 ELSE 0,
     initial_mapping |-> m, mappings |-> 1,
     built_with |-> [noise_given |-> noise_given,
                     error_rates |-> IF noise_given THEN rates ELSE 0,
                     initial_mapping |-> m],
     last_generated |-> FALSE]

\* reset(): the initial mapping of the env afterwards, m being a fresh shuffle
MappingAfterReset_shuffled(w, m) == m
MappingAfterReset(w, m) == w.initial_mapping

\* EvaluationWrapper.reset() applied to the wrapper w
EvaluationReset(w, m) ==
    LET generates == (w.current_iter % w.evaluation_iters = 0)
    IN  [w EXCEPT !.circuit = IF generates THEN @ + 1 ELSE @,
                  !.current_iter = @ + 1,
                  !.initial_mapping = MappingAfterReset(w, m),
                  !.mappings = IF MappingAfterReset(w, m) = w.initial_mapping
                               THEN @ ELSE @ + 1,
                  !.last_generated = generates]

InitEvalWrapper ==
    /\ \E iters \in 1..MaxEvaluationIters :
          \E noise_given \in BOOLEAN :
              \E rates \in (IF noise_given THEN ErrorRates ELSE {0}) :
                  \E m \in Mappings :
                      ew = EvaluationWrapperInit(iters, noise_given, rates, m)
    /\ tw = Absent
    /\ ev = Absent
    /\ trainer = Absent
    /\ TransformationAside

\* reset() called on the wrapper
EvalWrapperReset ==
    /\ ew.current_iter < MaxResets
    /\ \E m \in Mappings : ew' = EvaluationReset(ew, m)
    /\ UNCHANGED <<transformation_vars, tw, ev, trainer>>

NextEvalWrapper == EvalWrapperReset

SpecEvalWrapper == InitEvalWrapper /\ [][NextEvalWrapper]_vars

\* C23: in an EvaluationWrapper the error rates are generated once, at
\* construction, if a noise generator is given and never otherwise, and the
\* initial mapping is chosen once, at construction: after any number of
\* resets both are as built and no further calibration or mapping choice has
\* happened. A reset generates a circuit exactly when the number of resets
\* before it is a multiple of evaluation_iters.
C23_EvaluationCalibratesOnce ==
    /\ ew.calibrations = (IF ew.built_with.noise_given THEN 1 ELSE 0)
    /\ ew.error_rates = ew.built_with.error_rates
    /\ ew.initial_mapping = ew.built_with.initial_mapping
    /\ ew.mappings = 1
    /\ ew.current_iter > 0 =>
          /\ ew.last_generated <=> ((ew.current_iter - 1) % ew.evaluation_iters = 0)
          /\ ew.circuit = ((ew.current_iter - 1) \div ew.evaluation_iters) + 1
    /\ ew.current_iter = 0 => ew.circuit = 0

\* a noise-calibrated wrapper has been reset into its second circuit
C23_Witness ==
    /\ ew.built_with.noise_given
    /\ ew.evaluation_iters = 2
    /\ ew.current_iter = 3
    /\ ew.circuit = 2
    /\ ew.last_generated
    /\ ew.calibrations = 1

-----------------------------------------------------------------------------
(* The resampling loop of reset() under fair sampling.                     *)

NextResample ==
    \/ ResetCall
    \/ \E qc \in GeneratedCircuits : ResetSample(qc)
    \/ ResetTest
    \/ ResetCopy
    \/ ResetReturn

\* the generator returns a circuit with a legal action
SampleUsable ==
    \E qc \in GeneratedCircuits :
        /\ any(SampleTable[qc].mask)
        /\ ResetSample(qc)

\* a reset() that has been called runs on, and a generator that is asked
\* again and again returns a usable circuit at some point
SpecResample ==
    /\ Init
    /\ [][NextResample]_vars
    /\ WF_vars(ResetTest)
    /\ WF_vars(ResetCopy)
    /\ WF_vars(ResetReturn)
    /\ SF_vars(SampleUsable)

\* the loop is at a point the code has: no attempt limit, no error exit
ResampleSafe ==
    /\ rst.pc \in {"idle", "circuits", "test", "time"}
    /\ training =>
          /\ (rst.pc = "circuits" /\ rst.discarded) => ~any(valid_actions)
          /\ rst.pc = "time" => any(valid_actions)

\* C24: training-mode reset() resamples without a bound: a sample with an
\* all-zero mask sends the loop back to sampling, never to an error; the
\* loop is left only with a sample that has a legal action; and under fair
\* sampling a reset() that was called returns.
C24_ResampleUntilUsable ==
    /\ []ResampleSafe
    /\ (rst.pc = "circuits") ~> (rst.pc = "idle" /\ last_call.result = "ok")

\* a sample has been discarded and the loop is about to sample again
C24_Witness ==
    /\ training
    /\ rst.pc = "circuits"
    /\ rst.discarded
    /\ ~any(valid_actions)

-----------------------------------------------------------------------------
(* The layered graph and the committed circuit.                            *)

\* C25: the layered graph is that of the committed circuit whenever the mask
\* is about to be recomputed from it in a step, and whenever construction,
\* reset() or a step() has returned; the mask is then the one is_valid gives
\* on that graph, and after an accepted step the current circuit is the
\* candidate build_next_circuit returned for the decoded action.
C25_DagOfCommittedCircuit ==
    LET candidate == apply(stp.decoded.rule, stp.before.current_circuit,
                           stp.before.current_dag, stp.decoded.layer,
                           stp.decoded.qubit)
    IN  /\ stp.pc \in {"idle", "mask", "increment"}
              => current_dag = circuit_to_dag(current_circuit)
        /\ stp.pc \in {"idle", "increment"}
              => valid_actions = ValidActionsOf(circuit_to_dag(current_circuit))
        /\ stp.pc \in {"mask", "increment"}
              => /\ current_circuit = candidate
                 /\ current_circuit = next_circuit
        /\ (stp.pc = "idle" /\ last_call.op = "step" /\ last_call.result = "ok")
              => current_circuit = next_circuit

\* the mask of a step is about to be recomputed, on the graph of a circuit
\* that differs from the one the step started from
C25_Witness ==
    /\ stp.pc = "mask"
    /\ current_circuit # stp.before.current_circuit
    /\ current_dag # stp.before.current_dag
    /\ current_dag = circuit_to_dag(current_circuit)

-----------------------------------------------------------------------------
(* One cell per gate node.                                                 *)

\* the cells of the array that are 1
Ones == {ix \in DOMAIN cto.obs : cto.obs[ix] = 1}

-----------------------------------------------------------------------------
(* _generate_random_circuit, one loop iteration at a time.  gen.max_depth  *)
(* is self.max_depth, positive in every constructed environment; the draws *)
(* of the generator are the gate class and the qubit roll.  A CircuitError *)
(* of the circuit library is one of the outcomes of an iteration; it is    *)
(* raised before the circuit changes.  The recompilation that follows the  *)
(* loop belongs to the circuit library and its result is not modelled.     *)

MaxIterations == 5

GenIdle(md) ==
    [pc |-> "idle", max_depth |-> md, qc |-> QuantumCircuit(num_qubits),
     before |-> QuantumCircuit(num_qubits), iterations |-> 0, appended |-> 0,
     outcome |-> "none"]

InitGen ==
    /\ \E md \in 1..max_depth : gen = GenIdle(md)
    /\ RoutingAside
    /\ ctor = CtorReturned
    /\ envs = << >>
    /\ template_params = << >>
    /\ twin_call = << >>
    /\ EnvAside

gen_frame ==
    <<env_vars, fixed_vars, accepted_steps, last_call, after_reset, done, cto,
      beside_gen>>

\* qc = QuantumCircuit(self.num_qubits)
GenCall ==
    /\ gen.pc = "idle"
    /\ gen' = [GenIdle(gen.max_depth) EXCEPT !.pc = "loop"]
    /\ UNCHANGED gen_frame

\* while qc.depth() < self.max_depth
LoopContinues_through(qc, md) == depth(qc) <= md
LoopContinues(qc, md) == depth(qc) < md

\* qc.append(gate, qubits)
append(qc, gc, qubits) ==
    [qc EXCEPT !.data = Append(@, [name |-> gc.name, qargs |-> qubits])]

\* the body of the loop: one draw of a gate class and of a qubit
GenIter ==
    /\ gen.pc = "loop"
    /\ LoopContinues(gen.qc, gen.max_depth)
    /\ gen.iterations < MaxIterations
    /\ \E g \in DOMAIN gate_classes :
          \E q \in 0..(num_qubits - 1) :
              \E raises \in BOOLEAN :
                  LET qubits == GateClassQubits(gate_classes[g], q)
                      has_unplaced == \E i \in DOMAIN qubits : qubits[i] = -1
                      outcome == IF raises THEN "error"
                                 ELSE IF has_unplaced THEN "skipped"
                                 ELSE "appended"
                  IN  gen' = [gen EXCEPT
                                 !.before = gen.qc,
                                 !.iterations = @ + 1,
                                 !.outcome = outcome,
                                 !.appended = IF outcome = "appended"
                                              THEN @ + 1 ELSE @,
                                 !.qc = IF outcome = "appended"
                                        THEN append(gen.qc, gate_classes[g], qubits)
                                        ELSE @]
    /\ UNCHANGED gen_frame

\* the loop condition fails: the loop is left
GenExit ==
    /\ gen.pc = "loop"
    /\ ~LoopContinues(gen.qc, gen.max_depth)
    /\ gen' = [gen EXCEPT !.pc = "exit"]
    /\ UNCHANGED gen_frame

\* qc = transpile(...); return qc
GenReturn ==
    /\ gen.pc = "exit"
    /\ gen' = GenIdle(gen.max_depth)
    /\ UNCHANGED gen_frame

NextGen == GenCall \/ GenIter \/ GenExit \/ GenReturn

SpecGen == InitGen /\ [][NextGen]_vars

\* C27: the append loop of _generate_random_circuit is left with the depth of
\* the circuit equal to max_depth, and the depth is never above it: every
\* iteration appends at most one gate, an iteration whose gate class returns
\* a -1 qubit or that raises a circuit error leaves the circuit as it was,
\* and no iteration runs on a circuit whose depth has reached max_depth.
C27_LoopExitsAtMaxDepth ==
    gen.pc \in {"loop", "exit"} =>
        /\ depth(gen.qc) <= gen.max_depth
        /\ gen.pc = "exit" => depth(gen.qc) = gen.max_depth
        /\ Len(gen.qc.data) = gen.appended
        /\ gen.appended <= gen.iterations
        /\ Len(gen.qc.data) <= Len(gen.before.data) + 1
        /\ gen.outcome \in {"skipped", "error"} => gen.qc = gen.before
        /\ gen.iterations > 0 => depth(gen.before) < gen.max_depth

\* the loop is left at depth 2 after an iteration that appended nothing
C27_Witness ==
    /\ gen.pc = "exit"
    /\ gen.max_depth = 2
    /\ depth(gen.qc) = 2
    /\ gen.appended < gen.iterations

-----------------------------------------------------------------------------
(* EvaluationOrchestrator.evaluate on its EvaluationWrapper.  A circuit is *)
(* the number of its generation; a routed circuit is named by the circuit  *)
(* it routes and the episode, counted within the outer iteration, that     *)
(* produced it, episode 0 being the empty copy made before the episodes.   *)
(* The total reward of an episode is a draw; every episode terminates.     *)

MaxCircuits == 2
MaxEvaluateCalls == 2
MaxTotal == 2

\* the total rewards an episode can end with, numbered
Totals == 0..MaxTotal

\* best_reward = -inf: below every total
NegInf == -1

\* if not stochastic: evaluation_iters = 1
EvaluationIters(stochastic, iters) == IF stochastic THEN iters ELSE 1

NoLog == [original |-> 0, routed |-> [of |-> 0, episode |-> 0],
          baseline |-> 0, episodes |-> 0]

\* EvaluationOrchestrator.__init__ with valid arguments
EvaluationOrchestratorInit(stochastic, iters, n) ==
    [pc |-> "idle", stochastic |-> stochastic, requested_iters |-> iters,
     num_circuits |-> n, calls |-> 0, outer |-> 0, completed |-> 0,
     inner |-> 0, best_reward |-> NegInf,
     routed_circuit |-> [of |-> 0, episode |-> 0],
     totals |-> << >>, ran_on |-> {}, replaced |-> FALSE,
     best_before |-> NegInf, logged |-> NoLog]

InitEvaluate ==
    /\ \E stochastic \in BOOLEAN :
          \E iters \in 1..MaxEvaluationIters :
              \E n \in 1..MaxCircuits :
                  \E rates \in ErrorRates :
                      \E m \in Mappings :
                          /\ ev = EvaluationOrchestratorInit(stochastic, iters, n)
                          /\ ew = EvaluationWrapperInit(
                                      EvaluationIters(stochastic, iters),
                                      TRUE, rates, m)
    /\ tw = Absent
    /\ trainer = Absent
    /\ TransformationAside

\* evaluate() is called
EvaluateCall ==
    /\ ev.pc = "idle"
    /\ ev.calls < MaxEvaluateCalls
    /\ ev' = [ev EXCEPT !.pc = "outer", !.calls = @ + 1, !.outer = 0]
    /\ UNCHANGED <<transformation_vars, tw, ew, trainer>>

\* the head of an outer iteration
OuterBegin ==
    /\ ev.pc = "outer"
    /\ ev.outer < ev.num_circuits
    /\ ev' = [ev EXCEPT !.pc = "inner",
                        !.best_reward = NegInf,
                        !.routed_circuit = [of |-> ew.circuit, episode |-> 0],
                        !.inner = 0,
                        !.totals = << >>,
                        !.ran_on = {},
                        !.replaced = FALSE,
                        !.best_before = NegInf]
    /\ UNCHANGED <<transformation_vars, tw, ew, trainer>>

\* for _ in range(self.eval_env.evaluation_iters)
InnerIters_requested(o, w) == o.requested_iters
InnerIters(o, w) == w.evaluation_iters

\* if total_reward > best_reward
Improves_or_equals(total, best) == total >= best
Improves(total, best) == total > best

\* one episode of the inner loop: reset, run to termination, compare
EvaluateEpisode ==
    /\ ev.pc = "inner"
    /\ ev.inner < InnerIters(ev, ew)
    /\ \E m \in Mappings :
          \E total \in Totals :
              LET w == EvaluationReset(ew, m)
                  better == Improves(total, ev.best_reward)
              IN  /\ ew' = w
                  /\ ev' = [ev EXCEPT
                                !.inner = @ + 1,
                                !.totals = Append(@, total),
                                !.ran_on = @ \cup {w.circuit},
                                !.replaced = better,
                                !.best_before = ev.best_reward,
                                !.best_reward = IF better THEN total ELSE @,
                                !.routed_circuit =
                                    IF better
                                    THEN [of |-> w.circuit, episode |-> ev.inner + 1]
                                    ELSE @]
    /\ UNCHANGED <<transformation_vars, tw, trainer>>

\* the rest of an outer iteration: the metrics of 'rl' and of the baselines
OuterLog ==
    /\ ev.pc = "inner"
    /\ ev.inner >= InnerIters(ev, ew)
    /\ ev' = [ev EXCEPT !.pc = "outer",
                        !.outer = @ + 1,
                        !.completed = @ + 1,
                        !.logged = [original |-> ew.circuit,
                                    routed |-> ev.routed_circuit,
                                    baseline |-> ew.circuit,
                                    episodes |-> ev.inner]]
    /\ UNCHANGED <<transformation_vars, tw, ew, trainer>>

\* the outer loop is exhausted
EvaluateReturn ==
    /\ ev.pc = "outer"
    /\ ev.outer >= ev.num_circuits
    /\ ev' = [ev EXCEPT !.pc = "idle"]
    /\ UNCHANGED <<transformation_vars, tw, ew, trainer>>

NextEvaluate ==
    EvaluateCall \/ OuterBegin \/ EvaluateEpisode \/ OuterLog \/ EvaluateReturn

SpecEvaluate == InitEvaluate /\ [][NextEvaluate]_vars

\* C28: every outer iteration of evaluate runs exactly evaluation_iters
\* episodes, all on the one circuit generated by its first reset, and the
\* circuit logged as the original and given to the baseline methods is that
\* circuit, in every call of evaluate on the orchestrator: during the
\* episodes of the iteration the only circuit run on is the one generated
\* for it, and when the iteration has logged, its episodes were
\* evaluation_iters and the logged circuit is the one they ran on.
C28_OuterIterationOnOneCircuit ==
    /\ ev.pc = "inner" =>
          /\ ev.inner <= ew.evaluation_iters
          /\ ev.inner > 0 => ev.ran_on = {ev.completed + 1}
          /\ ev.inner > 0 => ew.circuit = ev.completed + 1
    /\ (ev.pc \in {"outer", "idle"} /\ ev.completed > 0) =>
          /\ ev.logged.episodes = ew.evaluation_iters
          /\ ev.ran_on = {ev.logged.original}
          /\ ev.logged.original = ev.completed
          /\ ev.logged.baseline = ev.logged.original
          /\ ew.circuit = ev.logged.original

\* the second call of evaluate has logged its second circuit, of two episodes
C28_Witness ==
    /\ ev.calls = 2
    /\ ev.pc = "outer"
    /\ ev.outer = 2
    /\ ev.completed = 4
    /\ ev.logged.episodes = 2
    /\ ev.logged.original = 4

\* the first episode of the totals that attains their maximum
FirstBest(totals) ==
    CHOOSE i \in DOMAIN totals :
        /\ \A j \in DOMAIN totals : totals[j] <= totals[i]
        /\ \A j \in 1..(i - 1) : totals[j] < totals[i]

\* C29: the routed circuit logged for 'rl' in an outer iteration is that of
\* the first of its episodes that attains the maximum total reward: after
\* every episode the routed circuit kept is that of the first episode with
\* the greatest total so far, an episode replaces it exactly when its total
\* is strictly greater than the best before it, and the logged routed
\* circuit is the one kept after the last episode.
C29_FirstBestEpisodeLogged ==
    /\ (ev.pc = "inner" /\ ev.inner > 0) =>
          /\ ev.routed_circuit = [of |-> ew.circuit, episode |-> FirstBest(ev.totals)]
          /\ ev.best_reward = ev.totals[FirstBest(ev.totals)]
          /\ ev.replaced <=> (ev.totals[ev.inner] > ev.best_before)
          /\ ev.replaced <=> (ev.routed_circuit.episode = ev.inner)
    /\ (ev.pc \in {"outer", "idle"} /\ ev.completed > 0) =>
          ev.logged.routed = [of |-> ev.logged.original,
                              episode |-> FirstBest(ev.totals)]

\* three episodes with the maximum attained by the second and the third
C29_Witness ==
    /\ ev.pc = "outer"
    /\ ev.completed > 0
    /\ Len(ev.totals) = 3
    /\ ev.totals[1] < ev.totals[2]
    /\ ev.totals[2] = ev.totals[3]
    /\ ev.logged.routed.episode = 2

-----------------------------------------------------------------------------
(* TrainingOrchestrator.train, one iteration at a time.  The orchestrator  *)
(* is built by its constructor or by from_checkpoint; trainer.saves are    *)
(* the values of total_iters at which algorithm.save was called.           *)

MaxTrainIters == 3
MaxCheckpoint == 3
MaxTotalIters == 8
MaxTrainCalls == 3

\* the checkpoint_config, None or one with a positive interval
CheckpointConfigs ==
    {[given |-> FALSE, interval |-> 0]} \cup
    {[given |-> TRUE, interval |-> i] : i \in 1..MaxInterval}

\* the checkpoint directories: 'checkpoint_' followed by the digits of a number
CheckpointDirs ==
    {[prefix |-> "checkpoint_", digits |-> k] : k \in 0..MaxCheckpoint}

\* int(checkpoint_dir.name.removeprefix('checkpoint_'))
get_checkpoint_iters(checkpoint_dir) == checkpoint_dir.digits

\* the orchestrator after construction, total_iters being start
TrainingOrchestratorInit(config, start) ==
    [pc |-> "idle", checkpoint_config |-> config, total_iters |-> start,
     built_at |-> start, calls |-> 0, iters |-> 0, remaining |-> 0,
     called_at |-> start, trained |-> 0, saves |-> {}, save_calls |-> 0]

\* TrainingOrchestrator.__init__
__init__(config) == TrainingOrchestratorInit(config, 0)

\* TrainingOrchestrator.from_checkpoint
from_checkpoint(checkpoint_dir, config) ==
    TrainingOrchestratorInit(config, get_checkpoint_iters(checkpoint_dir))

InitTrain ==
    /\ \E config \in CheckpointConfigs :
          \/ trainer = __init__(config)
          \/ \E checkpoint_dir \in CheckpointDirs :
                trainer = from_checkpoint(checkpoint_dir, config)
    /\ tw = Absent
    /\ ew = Absent
    /\ ev = Absent
    /\ TransformationAside

\* train(iters) is called
TrainCall ==
    /\ trainer.pc = "idle"
    /\ trainer.calls < MaxTrainCalls
    /\ \E iters \in 0..MaxTrainIters :
          /\ trainer.total_iters + iters <= MaxTotalIters
          /\ trainer' = [trainer EXCEPT !.pc = "loop",
                                        !.calls = @ + 1,
                                        !.iters = iters,
                                        !.remaining = iters,
                                        !.called_at = trainer.total_iters]
    /\ UNCHANGED <<transformation_vars, tw, ew, ev>>

\* the test of the save, o being the orchestrator after the increment
SavesAt_this_call(o) ==
    /\ o.checkpoint_config.given
    /\ (o.total_iters - o.called_at) % o.checkpoint_config.interval = 0
SavesAt(o) ==
    /\ o.checkpoint_config.given
    /\ o.total_iters % o.checkpoint_config.interval = 0

\* one iteration of the loop of train
TrainIter ==
    /\ trainer.pc = "loop"
    /\ trainer.remaining > 0
    /\ LET o == [trainer EXCEPT !.total_iters = @ + 1,
                                !.trained = @ + 1,
                                !.remaining = @ - 1]
       IN  trainer' = IF SavesAt(o)
                      THEN [o EXCEPT !.saves = @ \cup {o.total_iters},
                                     !.save_calls = @ + 1]
                      ELSE o
    /\ UNCHANGED <<transformation_vars, tw, ew, ev>>

\* the loop is exhausted
TrainReturn ==
    /\ trainer.pc = "loop"
    /\ trainer.remaining = 0
    /\ trainer' = [trainer EXCEPT !.pc = "idle"]
    /\ UNCHANGED <<transformation_vars, tw, ew, ev>>

NextTrain == TrainCall \/ TrainIter \/ TrainReturn

SpecTrain == InitTrain /\ [][NextTrain]_vars

\* C30: train(iters) raises total_iters by exactly iters, and a checkpoint
\* is saved exactly at the iterations whose cumulative total_iters, counted
\* over the calls of train from the number the orchestrator was built
\* with (0, or the number of the checkpoint), is a multiple of the
\* interval of the checkpoint_config, once each; with no checkpoint_config
\* nothing is saved.
C30_SavesAtMultiplesOfInterval ==
    /\ trainer.total_iters = trainer.called_at + (trainer.iters - trainer.remaining)
    /\ trainer.total_iters = trainer.built_at + trainer.trained
    /\ (trainer.pc = "idle" /\ trainer.calls > 0) =>
          trainer.total_iters = trainer.called_at + trainer.iters
    /\ trainer.checkpoint_config.given =>
          trainer.saves =
              {t \in (trainer.built_at + 1)..trainer.total_iters :
                  t % trainer.checkpoint_config.interval = 0}
    /\ ~trainer.checkpoint_config.given => trainer.saves = {}
    /\ trainer.save_calls = Cardinality(trainer.saves)

\* built from checkpoint 3 with interval 2: the second call of train has
\* returned past the saves at 4 and 6, neither a multiple within its call
C30_Witness ==
    /\ trainer.built_at = 3
    /\ trainer.checkpoint_config.given
    /\ trainer.checkpoint_config.interval = 2
    /\ trainer.calls = 2
    /\ trainer.pc = "idle"
    /\ trainer.called_at = 4
    /\ trainer.total_iters = 7
    /\ trainer.saves = {4, 6}

-----------------------------------------------------------------------------
(* vqc_double_q_learning: episodes and replay updates of the tables q_a    *)
(* and q_b.  The tables are dicts keyed by the tuple (obs, action): such a *)
(* key is the pair <<obs, action>>, and a bare action used as a key is the *)
(* one-element <<action>>, which equals no pair.  CircuitEnv is not part   *)
(* of the sources: observations are numbered and the observation after a   *)
(* step, the reward of an episode and the convergence test are draws.      *)
(* Values are counted in units of 1 / Unit, so that the halvings of        *)
(* MaxUpdates updates are exact.                                           *)

NumObs == 2
NumActions == 2
length == 1
batch_size == 2
MaxEpisodes == 2
MaxUpdates == 3

\* learning_rate = 1 / LearningRateDen
LearningRateDen == 2
discount_factor == 1

RECURSIVE Pow(_, _)
Pow(b, e) == IF e = 0 THEN 1 ELSE b * Pow(b, e - 1)

Unit == Pow(LearningRateDen, MaxUpdates)

Observations == 1..NumObs

\* env_actions = list(range(env.action_space.n))
env_actions == 0..(NumActions - 1)

\* the rewards an episode can end with
Rewards == {0, Unit * length}

\* q.get(key, 0.0)
Get(q, key) == IF key \in DOMAIN q THEN q[key] ELSE 0

\* q[key] = v
Put(q, key, v) == [k \in DOMAIN q \cup {key} |-> IF k = key THEN v ELSE q[k]]

\* the first of the actions that maximises the rated value
FirstMax(rate) ==
    CHOOSE a \in env_actions :
        /\ \A b \in env_actions : rate[b] <= rate[a]
        /\ \A b \in env_actions : b < a => rate[b] < rate[a]

\* max(env_actions, key=lambda a: q.get((obs, a), 0.0))
max_action(q, obs) == FirstMax([a \in env_actions |-> Get(q, <<obs, a>>)])

\* the greedy action of an episode, on the sum of the two tables
GreedyAction(q_a, q_b, obs) ==
    FirstMax([a \in env_actions |-> Get(q_a, <<obs, a>>) + Get(q_b, <<obs, a>>)])

\* the key the other table is read at: other.get(max_action(q, obs_tp1), 0.0)
BootstrapKey(obs_tp1, a) == <<a>>

\* the value written at (obs_t, action) of table q, other being the other table
UpdatedValue(q, other, obs_t, action, obs_tp1, intermediate_reward) ==
    ((LearningRateDen - 1) * Get(q, <<obs_t, action>>)
       + (intermediate_reward
            + discount_factor
                * Get(other, BootstrapKey(obs_tp1, max_action(q, obs_tp1)))))
    \div LearningRateDen

NoUpdate ==
    [table |-> "none", obs_t |-> 0, action |-> 0, obs_tp1 |-> 0, a_star |-> 0,
     bootstrap |-> 0, other_at_pair |-> 0]

DoubleQStart(n) ==
    [pc |-> "episode", q_a |-> << >>, q_b |-> << >>, replay_buffer |-> << >>,
     num_episodes |-> n, episodes |-> 0, best_reward |-> 0,
     batch |-> << >>, t |-> 0, y_below_half |-> FALSE, updates |-> 0,
     last |-> NoUpdate]

InitDoubleQ ==
    /\ \E n \in 1..MaxEpisodes : dq = DoubleQStart(n)
    /\ tw = Absent
    /\ ew = Absent
    /\ ev = Absent
    /\ trainer = Absent
    /\ gen = Absent
    /\ ctor = CtorReturned
    /\ envs = << >>
    /\ template_params = << >>
    /\ twin_call = << >>
    /\ EnvAside

dq_frame ==
    <<env_vars, fixed_vars, accepted_steps, last_call, after_reset, done, cto,
      stp, rst, ctor, twin_vars, gen, routing_vars>>

\* the sequences of k different positions of the replay buffer
Batches(n, k) ==
    {b \in [1..k -> 1..n] : \A i \in 1..k : \A j \in 1..k : b[i] = b[j] => i = j}

Min(a, b) == IF a <= b THEN a ELSE b

\* one episode: reset, length epsilon-greedy steps, the sample appended to the
\* replay buffer, the best reward, the early return and the batch drawn
Episode ==
    /\ dq.pc = "episode"
    /\ dq.episodes < dq.num_episodes
    /\ \E os \in [1..(length + 1) -> Observations] :
          \E explore \in [1..length -> BOOLEAN] :
            \E as \in [1..length -> env_actions] :
              \E sample_reward \in Rewards :
                \E converged \in BOOLEAN :
                  /\ \A i \in 1..length :
                        ~explore[i] => as[i] = GreedyAction(dq.q_a, dq.q_b, os[i])
                  /\ LET seq == [i \in 1..(length + 1) |->
                                    [obs |-> os[i],
                                     action |-> IF i <= length THEN as[i] ELSE -1]]
                         buffer == Append(dq.replay_buffer,
                                          [seq |-> seq, reward |-> sample_reward])
                         better == sample_reward > dq.best_reward
                         o == [dq EXCEPT !.replay_buffer = buffer,
                                         !.episodes = @ + 1,
                                         !.best_reward = IF better THEN sample_reward ELSE @]
                     IN  IF better /\ converged
                         THEN dq' = [o EXCEPT !.pc = "returned"]
                         ELSE \E b \in Batches(Len(buffer),
                                               Min(batch_size, Len(buffer))) :
                                  dq' = [o EXCEPT !.pc = "replay", !.batch = b,
                                                  !.t = 0]
    /\ UNCHANGED dq_frame

\* the head of the loop over the batch: y = random.random()
ReplayDraw ==
    /\ dq.pc = "replay"
    /\ dq.t = 0
    /\ dq.batch # << >>
    /\ \E below \in BOOLEAN :
          dq' = [dq EXCEPT !.y_below_half = below, !.t = 1]
    /\ UNCHANGED dq_frame

\* one transition of the sample: the update of q_a or of q_b
ReplayUpdate ==
    /\ dq.pc = "replay"
    /\ dq.t \in 1..length
    /\ dq.updates < MaxUpdates
    /\ LET sample == dq.replay_buffer[Head(dq.batch)]
           intermediate_reward == sample.reward \div length
           obs_t == sample.seq[dq.t].obs
           action == sample.seq[dq.t].action
           obs_tp1 == sample.seq[dq.t + 1].obs
           q == IF dq.y_below_half THEN dq.q_a ELSE dq.q_b
           other == IF dq.y_below_half THEN dq.q_b ELSE dq.q_a
           a_star == max_action(q, obs_tp1)
           v == UpdatedValue(q, other, obs_t, action, obs_tp1, intermediate_reward)
           written == Put(q, <<obs_t, action>>, v)
           o == [dq EXCEPT
                    !.q_a = IF dq.y_below_half THEN written ELSE @,
                    !.q_b = IF dq.y_below_half THEN @ ELSE written,
                    !.updates = @ + 1,
                    !.last = [table |-> IF dq.y_below_half THEN "q_a" ELSE "q_b",
                              obs_t |-> obs_t, action |-> action,
                              obs_tp1 |-> obs_tp1, a_star |-> a_star,
                              bootstrap |-> Get(other, BootstrapKey(obs_tp1, a_star)),
                              other_at_pair |-> Get(other, <<obs_tp1, a_star>>)]]
       IN  dq' = IF dq.t = length
                 THEN [o EXCEPT !.batch = Tail(@), !.t = 0]
                 ELSE [o EXCEPT !.t = @ + 1]
    /\ UNCHANGED dq_frame

\* the batch is exhausted: the next episode
ReplayEnd ==
    /\ dq.pc = "replay"
    /\ dq.t = 0
    /\ dq.batch = << >>
    /\ dq' = [dq EXCEPT !.pc = "episode"]
    /\ UNCHANGED dq_frame

\* the episodes are exhausted: return best_v, env.params.copy(), env.cost
DoubleQReturn ==
    /\ dq.pc = "episode"
    /\ dq.episodes = dq.num_episodes
    /\ dq' = [dq EXCEPT !.pc = "returned"]
    /\ UNCHANGED dq_frame

NextDoubleQ == Episode \/ ReplayDraw \/ ReplayUpdate \/ ReplayEnd \/ DoubleQReturn

SpecDoubleQ == InitDoubleQ /\ [][NextDoubleQ]_vars

\* C31: every replay update of a table at (obs_t, action) bootstraps from the
\* value the other table stores for the pair (obs_tp1, a*), a* being the
\* action that maximises the updated table at obs_tp1: the value the update
\* read from the other table is the other table's entry at that pair.
C31_BootstrapsFromOtherTable ==
    dq.last.table # "none" => dq.last.bootstrap = dq.last.other_at_pair

====
